---- MODULE Spec2Model ----
(***************************************************************************)
(* The Acme Logistics load broker API (src/api/main.py): the bearer-token  *)
(* guard, GET /, GET /loads, POST /carrier/verify and POST /call-log with  *)
(* its read-modify-write of dashboard/testData/call_logs.json by           *)
(* concurrent worker threads.                                              *)
(***************************************************************************)
EXTENDS Integers, Sequences, FiniteSets, TLC

VARIABLES
  file,     \* call_logs.json: [exists, data]; data is the sequence of cells on disk
  pc,       \* per worker thread: position inside create_call_log / save_call_log
  req,      \* per worker thread: the POST /call-log request being served
  resp,     \* per worker thread: the response to it
  logs,     \* per worker thread: the local variable `logs` of save_call_log
  wpos,     \* per worker thread: offset of the file object opened with "w"
  pre,      \* per worker thread: the store as it was when the request came in
  quiet,    \* per worker thread: no other save_call_log step since then
  served,   \* number of requests taken so far
  last      \* the latest exchange that ran no save_call_log: a request the
            \* guard turned away, GET /, GET /loads, POST /carrier/verify

vars == <<file, pc, req, resp, logs, wpos, pre, quiet, served, last>>

None == "None"

\* ------------------------------------------------------------------ bounds
\* Worker threads, requests taken in one run, cells per write buffer.
NumThreads == 2
MaxRequests == 2
BufSize == 4

Threads == 1..NumThreads

\* ------------------------------------------------------------------ helpers
Max(a, b) == IF a >= b THEN a ELSE b
Min(a, b) == IF a <= b THEN a ELSE b

\* ------------------------------------------------------------ configuration
api_key == "secret"

\* -------------------------------------------------------------- CallLog data
\* Two CallLog bodies; load_id and final_rate are the Optional fields.
LogA ==
  [mc_number |-> "MC-1", load_id |-> None, outcome |-> "Carrier Ineligible",
   sentiment |-> "Negative", negotiation_rounds |-> 0, final_rate |-> None,
   call_duration_seconds |-> 60]
LogB ==
  [mc_number |-> "MC-2", load_id |-> "LID-001", outcome |-> "Booked",
   sentiment |-> "Positive", negotiation_rounds |-> 2, final_rate |-> "1800.0",
   call_duration_seconds |-> 300]
CallLog == {LogA, LogB}

\* log.model_dump(): the dict of the seven fields, same values.
model_dump(log) ==
  [mc_number |-> log.mc_number, load_id |-> log.load_id, outcome |-> log.outcome,
   sentiment |-> log.sentiment, negotiation_rounds |-> log.negotiation_rounds,
   final_rate |-> log.final_rate,
   call_duration_seconds |-> log.call_duration_seconds]

\* ------------------------------------------------------------ the file's text
\* The text of call_logs.json is a sequence of cells.  A dumped dict takes as
\* many cells as its text is long: a null load_id is shorter than "LID-001".
NoBody == [mc_number |-> "", load_id |-> None, outcome |-> "", sentiment |-> "",
           negotiation_rounds |-> 0, final_rate |-> None,
           call_duration_seconds |-> 0]
Punct(t) == [tok |-> t, body |-> NoBody, part |-> 0]
ObjCell(d, i) == [tok |-> "obj", body |-> d, part |-> i]
Size(d) == IF d.load_id = None THEN 1 ELSE 2
ObjCells(d) == [i \in 1..Size(d) |-> ObjCell(d, i)]

\* json.dump(logs, f, indent=2): "[", the dicts separated by ",", "]".
RECURSIVE DumpItems(_)
DumpItems(l) ==
  IF Len(l) = 0 THEN <<>>
  ELSE IF Len(l) = 1 THEN ObjCells(l[1])
  ELSE ObjCells(l[1]) \o <<Punct(",")>> \o DumpItems(Tail(l))
json_dump(l) == <<Punct("[")>> \o DumpItems(l) \o <<Punct("]")>>

\* json.load(f): f.read() decodes the bytes (UnicodeDecodeError on a byte that
\* is no UTF-8), json.loads parses the text (JSONDecodeError on anything that
\* is no JSON document, trailing data included).
Loaded(k, v) == [kind |-> k, val |-> v]
RECURSIVE ParseArray(_, _, _)
ParseArray(c, p, acc) ==
  IF p > Len(c) THEN Loaded("JSONDecodeError", <<>>)
  ELSE IF c[p].tok # "obj" \/ c[p].part # 1 THEN Loaded("JSONDecodeError", <<>>)
  ELSE LET d == c[p].body
           n == Size(d)
       IN IF p + n > Len(c) THEN Loaded("JSONDecodeError", <<>>)
          ELSE IF \E i \in 1..n : c[p + i - 1] # ObjCell(d, i)
            THEN Loaded("JSONDecodeError", <<>>)
          ELSE IF c[p + n].tok = ","
            THEN ParseArray(c, p + n + 1, Append(acc, d))
          ELSE IF c[p + n].tok = "]" /\ p + n = Len(c)
            THEN Loaded("list", Append(acc, d))
          ELSE Loaded("JSONDecodeError", <<>>)
json_loads(c) ==
  IF Len(c) = 0 THEN Loaded("JSONDecodeError", <<>>)
  ELSE IF c = <<Punct("null")>> THEN Loaded("null", <<>>)
  ELSE IF c[1].tok # "[" THEN Loaded("JSONDecodeError", <<>>)
  ELSE IF c = <<Punct("["), Punct("]")>> THEN Loaded("list", <<>>)
  ELSE ParseArray(c, 2, <<>>)
json_load(c) ==
  IF \E i \in 1..Len(c) : c[i].tok = "xFF"
    THEN Loaded("UnicodeDecodeError", <<>>)
    ELSE json_loads(c)

\* f.write at offset pos of a file holding data: the cells under the chunk are
\* replaced, a gap past the end of the file reads as NUL bytes.
WriteAt(data, pos, chunk) ==
  [i \in 1..Max(Len(data), pos + Len(chunk)) |->
     IF i > pos /\ i <= pos + Len(chunk) THEN chunk[i - pos]
     ELSE IF i <= Len(data) THEN data[i]
     ELSE Punct("x00")]

Absent == [exists |-> FALSE, data |-> <<>>]
Present(c) == [exists |-> TRUE, data |-> c]

\* ------------------------------------------------------------------ strings
\* A Python str is the sequence of its characters.
Upper == <<"A", "B", "C", "D", "E", "F", "G", "H", "I", "J", "K", "L", "M",
           "N", "O", "P", "Q", "R", "S", "T", "U", "V", "W", "X", "Y", "Z">>
Lower == <<"a", "b", "c", "d", "e", "f", "g", "h", "i", "j", "k", "l", "m",
           "n", "o", "p", "q", "r", "s", "t", "u", "v", "w", "x", "y", "z">>
lower_char(c) ==
  IF \E i \in 1..Len(Upper) : Upper[i] = c
    THEN Lower[CHOOSE i \in 1..Len(Upper) : Upper[i] = c]
    ELSE c
\* str.lower()
lower(s) == [i \in 1..Len(s) |-> lower_char(s[i])]
\* x in y, for two strs
str_in(x, y) ==
  \E i \in 0..(Len(y) - Len(x)) : SubSeq(y, i + 1, i + Len(x)) = x

\* ---------------------------------------------------------------- responses
Response(s, d) ==
  [status |-> s, detail |-> d, exc |-> None, loads |-> <<>>, eligible |-> None,
   calls |-> 0]
Pass == Response(0, "pass")
NoResp == Response(0, "")
\* An exception no handler catches: the server answers 500.
Unhandled(e, n) ==
  [Response(500, "Internal Server Error") EXCEPT !.exc = e, !.calls = n]

\* ---------------------------------------------------------------- Auth Guard
Header(s, c) == [present |-> TRUE, scheme |-> s, credentials |-> c]
NoHeader == [present |-> FALSE, scheme |-> "", credentials |-> ""]
Headers ==
  {NoHeader, Header("Bearer", api_key), Header("Bearer", "wrong"),
   Header("bearer", api_key), Header("Basic", api_key), Header("Bearer", "")}

lower_scheme(s) ==
  CASE s = "Bearer" -> "bearer"
    [] s = "Basic" -> "basic"
    [] OTHER -> s

\* security_scheme = HTTPBearer(): the framework's dependency, run before
\* get_current_user.  Without a header, a scheme or a credential, and with a
\* scheme that is not "bearer" in any letter case, it answers itself; the
\* status it answers with is 403 or 401 depending on the installed release.
HTTPBearerStatus == {401, 403}
HTTPBearer(h) ==
  IF ~h.present \/ h.scheme = "" \/ h.credentials = ""
    THEN {Response(s, "Not authenticated") : s \in HTTPBearerStatus}
  ELSE IF lower_scheme(h.scheme) # "bearer"
    THEN {Response(s, "Invalid authentication credentials") :
            s \in HTTPBearerStatus}
  ELSE {Pass}

\* A guard that lets every bearer credential through.
get_current_user_open(credentials) == Pass

get_current_user(credentials) ==
  IF credentials.scheme # "Bearer" \/ credentials.credentials # api_key
    THEN Response(401, "Invalid or missing API key")
    ELSE Pass

\* dependencies=[Depends(get_current_user)]: the answers the guard may give to
\* a request with header h; Pass hands the request to the handler.
Guard(h) ==
  {IF r = Pass THEN get_current_user(h) ELSE r : r \in HTTPBearer(h)}

\* ------------------------------------------------------------- Load Catalog
Str_NewYork == <<"N", "e", "w", " ", "Y", "o", "r", "k", ",", " ", "N", "Y">>
Str_Chicago == <<"C", "h", "i", "c", "a", "g", "o", ",", " ", "I", "L">>
Str_Dallas == <<"D", "a", "l", "l", "a", "s", ",", " ", "T", "X">>
Str_LosAngeles ==
  <<"L", "o", "s", " ", "A", "n", "g", "e", "l", "e", "s", ",", " ", "C", "A">>
Str_Miami == <<"M", "i", "a", "m", "i", ",", " ", "F", "L">>
Str_Van == <<"V", "a", "n">>
Str_Reefer == <<"R", "e", "e", "f", "e", "r">>

sampleLoads ==
  << [load_id |-> "LID-001", origin |-> Str_NewYork, destination |-> Str_Chicago,
      pickup_datetime |-> "2025-09-29T09:00:00Z",
      delivery_datetime |-> "2025-09-30T17:00:00Z",
      equipment_type |-> Str_Van, loadboard_rate |-> 1800,
      notes |-> "Team drivers preferred for fast delivery.", weight |-> 42000,
      commodity_type |-> "General Freight", num_of_pieces |-> 1, miles |-> 790,
      dimensions |-> "53ft"],
     [load_id |-> "LID-002", origin |-> Str_Dallas, destination |-> Str_LosAngeles,
      pickup_datetime |-> "2025-09-29T14:00:00Z",
      delivery_datetime |-> "2025-10-01T22:00:00Z",
      equipment_type |-> Str_Reefer, loadboard_rate |-> 2500,
      notes |-> "Must maintain temperature at 34F. Produce.", weight |-> 44000,
      commodity_type |-> "Produce", num_of_pieces |-> 1200, miles |-> 1435,
      dimensions |-> "53ft"],
     [load_id |-> "LID-003", origin |-> Str_NewYork, destination |-> Str_Miami,
      pickup_datetime |-> "2025-09-30T11:00:00Z",
      delivery_datetime |-> "2025-10-02T15:00:00Z",
      equipment_type |-> Str_Van, loadboard_rate |-> 2100,
      notes |-> "No touch freight. Drop and hook at destination.",
      weight |-> 38000, commodity_type |-> "Electronics", num_of_pieces |-> 800,
      miles |-> 1285, dimensions |-> "53ft"] >>

\* An Optional[str] query parameter.
Given(s) == [given |-> TRUE, s |-> s]
NotGiven == [given |-> FALSE, s |-> <<>>]
\* `if origin:` is false for None and for the empty str.
Truthy(o) == o.given /\ Len(o.s) > 0

\* The origin compared without lowering the query.
origin_filter_cased(o, loads) ==
  IF Truthy(o)
    THEN SelectSeq(loads, LAMBDA load : str_in(o.s, lower(load.origin)))
    ELSE loads
origin_filter(o, loads) ==
  IF Truthy(o)
    THEN SelectSeq(loads, LAMBDA load : str_in(lower(o.s), lower(load.origin)))
    ELSE loads
destination_filter(o, loads) ==
  IF Truthy(o)
    THEN SelectSeq(loads,
                   LAMBDA load : str_in(lower(o.s), lower(load.destination)))
    ELSE loads
\* The equipment type matched as a substring, like the two locations.
equipment_type_filter_in(o, loads) ==
  IF Truthy(o)
    THEN SelectSeq(loads,
                   LAMBDA load : str_in(lower(o.s), lower(load.equipment_type)))
    ELSE loads
equipment_type_filter(o, loads) ==
  IF Truthy(o)
    THEN SelectSeq(loads,
                   LAMBDA load : lower(o.s) = lower(load.equipment_type))
    ELSE loads

search_loads(q) ==
  LET all_loads == sampleLoads
      filtered_loads ==
        equipment_type_filter(q.equipment_type,
          destination_filter(q.destination,
            origin_filter(q.origin, all_loads)))
  IN IF filtered_loads = <<>>
       THEN Response(404, "No matching loads found")
       ELSE [Response(200, "") EXCEPT !.loads = filtered_loads]

Query(o, d, e) == [origin |-> o, destination |-> d, equipment_type |-> e]
NoQuery == Query(NotGiven, NotGiven, NotGiven)
Origins ==
  {NotGiven, Given(<<>>), Given(<<"n", "e", "w", " ", "y", "o", "r", "k">>),
   Given(<<"D", "A", "L", "L", "A", "S">>), Given(<<"o", "r", "k", ",", " ", "N">>),
   Given(<<"z", "z">>)}
Destinations ==
  {NotGiven, Given(<<>>), Given(<<"c", "h", "i", "c", "a", "g", "o">>),
   Given(<<"C", "A">>), Given(<<"m", "i", "a", "m", "i">>), Given(<<"z", "z">>)}
EquipmentTypes ==
  {NotGiven, Given(<<>>), Given(<<"v", "a", "n">>), Given(<<"V", "A", "N">>),
   Given(<<"V", "a">>), Given(Str_Reefer), Given(<<"z", "z">>)}
Queries ==
  {Query(o, d, e) : o \in Origins, d \in Destinations, e \in EquipmentTypes}

\* --------------------------------------------------------- Carrier Verifier
\* What requests.get(fmcsa_url) meets: no connection, or a response with a
\* status and a body.  A body is described by the shape of the path
\* content[0].carrier.carrierOperation.carrierOperation inside it.
Shape(j, t, c, f, ca, op, st) ==
  [json |-> j, top |-> t, content |-> c, first |-> f, carrier |-> ca,
   op |-> op, status |-> st]
NoShape == Shape(FALSE, "", "", "", "", "", "")
Full(st) == Shape(TRUE, "dict", "list", "dict", "dict", "dict", st)
Bodies ==
  {Full("OUT-OF-SERVICE"), Full("out-of-service"), Full("A"), Full("missing"),
   Full("null"),
   Shape(TRUE, "dict", "list", "dict", "dict", "missing", ""),
   Shape(TRUE, "dict", "list", "dict", "dict", "null", ""),
   Shape(TRUE, "dict", "list", "dict", "missing", "", ""),
   Shape(TRUE, "dict", "list", "dict", "null", "", ""),
   Shape(TRUE, "dict", "list", "null", "", "", ""),
   Shape(TRUE, "dict", "empty", "", "", "", ""),
   Shape(TRUE, "dict", "missing", "", "", "", ""),
   Shape(TRUE, "dict", "null", "", "", "", ""),
   Shape(TRUE, "dict", "dict", "", "", "", ""),
   Shape(TRUE, "list", "", "", "", "", ""),
   NoShape}
OkStatus == {200, 202}
ErrorStatus == {400, 401, 403, 404, 429, 500, 502, 503}
Unreachable == [reachable |-> FALSE, status |-> 0, body |-> NoShape]
Answer(s, b) == [reachable |-> TRUE, status |-> s, body |-> b]
Registry ==
  {Unreachable} \cup {Answer(s, NoShape) : s \in ErrorStatus}
  \cup {Answer(s, b) : s \in OkStatus, b \in Bodies}
McNumbers == {"123456", "000000", "MC-1"}

Value(v) == [exc |-> None, val |-> v]
Exc(e) == [exc |-> e, val |-> ""]
\* data.get("content", [{}])[0].get("carrier", {})
\*     .get("carrierOperation", {}).get("carrierOperation", "N")
carrierOperation(b) ==
  IF b.top # "dict" THEN Exc("AttributeError")
  ELSE IF b.content = "missing" THEN Value("N")
  ELSE IF b.content = "null" THEN Exc("TypeError")
  ELSE IF b.content = "empty" THEN Exc("IndexError")
  ELSE IF b.content = "dict" THEN Exc("KeyError")
  ELSE IF b.first # "dict" THEN Exc("AttributeError")
  ELSE IF b.carrier = "missing" THEN Value("N")
  ELSE IF b.carrier # "dict" THEN Exc("AttributeError")
  ELSE IF b.op = "missing" THEN Value("N")
  ELSE IF b.op # "dict" THEN Exc("AttributeError")
  ELSE IF b.status = "missing" THEN Value("N")
  ELSE Value(b.status)

Eligible(e, d) == [Response(200, d) EXCEPT !.eligible = e, !.calls = 1]
Unavailable(d) == [Response(503, d) EXCEPT !.calls = 1]

\* An HTTPError handler without the 404 case.
on_HTTPError_all(status_code) ==
  Unavailable("FMCSA API service is currently unavailable")

\* except requests.exceptions.HTTPError as e:
on_HTTPError(status_code) ==
  IF status_code = 404
    THEN Eligible("False", "Carrier not found.")
    ELSE Unavailable("FMCSA API service is currently unavailable")

\* except requests.exceptions.RequestException:
on_RequestException == Unavailable("Could not connect to the FMCSA API.")

\* response.raise_for_status()
raise_for_status(status_code) == status_code >= 400 /\ status_code < 600

verify_carrier(reg) ==
  IF ~reg.reachable THEN on_RequestException
  ELSE IF raise_for_status(reg.status) THEN on_HTTPError(reg.status)
  ELSE IF ~reg.body.json THEN on_RequestException
  ELSE LET st == carrierOperation(reg.body) IN
       IF st.exc # None THEN Unhandled(st.exc, 1)
       ELSE IF st.val # "OUT-OF-SERVICE"
         THEN Eligible("True", "Carrier is active and eligible")
         ELSE Eligible("False", "Carrier is not active or out of service")

\* ------------------------------------------------------------ POST /call-log
NoReq == [header |-> NoHeader, log |-> NoBody]
Busy(t) == pc[t] \notin {"idle", "done"}

\* A step of thread t inside save_call_log disturbs every other request that
\* is being served, or was served and not yet followed by another.
Disturb(t) ==
  [u \in Threads |-> IF u = t \/ pc[u] = "idle" THEN quiet[u] ELSE FALSE]
\* The store as it was is remembered only for an undisturbed request.
Recall(t) == [u \in Threads |-> IF u = t THEN pre[u] ELSE Absent]

Raise(t, e) ==
  /\ pc' = [pc EXCEPT ![t] = "done"]
  /\ resp' = [resp EXCEPT ![t] = Unhandled(e, 0)]
  /\ logs' = [logs EXCEPT ![t] = <<>>]
  /\ wpos' = [wpos EXCEPT ![t] = 0]

\* The request passes the guard and create_call_log calls save_call_log.
CreateCallLog(t, h, log) ==
  /\ ~Busy(t)
  /\ Pass \in Guard(h)
  /\ served < MaxRequests
  /\ served' = served + 1
  /\ pc' = [pc EXCEPT ![t] = "exists"]
  /\ req' = [req EXCEPT ![t] = [header |-> h, log |-> log]]
  /\ resp' = [resp EXCEPT ![t] = NoResp]
  /\ pre' = [pre EXCEPT ![t] = file]
  /\ logs' = [logs EXCEPT ![t] = <<>>]
  /\ quiet' = [quiet EXCEPT ![t] = TRUE]
  /\ UNCHANGED <<file, wpos, last>>

\* logs = []; if os.path.exists(log_file): ... else straight to
\* logs.append(log.model_dump())
Exists(t) ==
  /\ pc[t] = "exists"
  /\ IF file.exists
       THEN /\ pc' = [pc EXCEPT ![t] = "load"]
            /\ UNCHANGED logs
       ELSE /\ pc' = [pc EXCEPT ![t] = "open"]
            /\ logs' = [logs EXCEPT ![t] = <<model_dump(req[t].log)>>]
  /\ quiet' = Disturb(t)
  /\ pre' = Recall(t)
  /\ UNCHANGED <<file, req, resp, wpos, served, last>>

\* A load that starts from the empty list whatever the file holds.
Existing_none(r) == <<>>

\* try: logs = json.load(f)  except json.JSONDecodeError: logs = []
Existing(r) == IF r.kind = "list" THEN r.val ELSE <<>>

\* with open(log_file, "r") as f: the try above, then
\* logs.append(log.model_dump()).  Only JSONDecodeError is caught; a loaded
\* value that is no list has no append.
Load(t) ==
  /\ pc[t] = "load"
  /\ LET r == json_load(file.data) IN
       CASE r.kind = "UnicodeDecodeError" -> Raise(t, "UnicodeDecodeError")
         [] r.kind = "null" -> Raise(t, "AttributeError")
         [] OTHER ->
              /\ logs' = [logs EXCEPT ![t] =
                            Append(Existing(r), model_dump(req[t].log))]
              /\ pc' = [pc EXCEPT ![t] = "open"]
              /\ UNCHANGED <<resp, wpos>>
  /\ quiet' = Disturb(t)
  /\ pre' = Recall(t)
  /\ UNCHANGED <<file, req, served, last>>

\* open(log_file, "w"): the file is created or truncated to nothing; the open
\* fails when the medium cannot be written.
Open(t) ==
  /\ pc[t] = "open"
  /\ \/ /\ file' = Present(<<>>)
        /\ wpos' = [wpos EXCEPT ![t] = 0]
        /\ pc' = [pc EXCEPT ![t] = "dump"]
        /\ UNCHANGED <<resp, logs>>
     \/ /\ Raise(t, "OSError")
        /\ UNCHANGED file
  /\ quiet' = Disturb(t)
  /\ pre' = Recall(t)
  /\ UNCHANGED <<req, served, last>>

\* json.dump(logs, f, indent=2) and the close of the with block: the text
\* reaches the file one buffer at a time, at the offset of this file object;
\* a write fails when the medium cannot take it.
Dump(t) ==
  /\ pc[t] = "dump"
  /\ LET text == json_dump(logs[t])
         n == Min(BufSize, Len(text) - wpos[t])
         chunk == SubSeq(text, wpos[t] + 1, wpos[t] + n)
     IN \/ /\ file' = Present(WriteAt(file.data, wpos[t], chunk))
           /\ IF wpos[t] + n = Len(text)
                THEN /\ pc' = [pc EXCEPT ![t] = "done"]
                     /\ resp' = [resp EXCEPT ![t] =
                                   Response(201, "Call log saved successfully")]
                     /\ logs' = [logs EXCEPT ![t] = <<>>]
                     /\ wpos' = [wpos EXCEPT ![t] = 0]
                ELSE /\ wpos' = [wpos EXCEPT ![t] = wpos[t] + n]
                     /\ UNCHANGED <<pc, resp, logs>>
        \/ /\ Raise(t, "OSError")
           /\ UNCHANGED file
  /\ quiet' = Disturb(t)
  /\ pre' = Recall(t)
  /\ UNCHANGED <<req, served, last>>

\* ------------------------------------------------- the other three endpoints
Exchange(e, h, q, mc, reg, r) ==
  [endpoint |-> e, header |-> h, query |-> q, mc_number |-> mc,
   registry |-> reg, resp |-> r]
NoLast == Exchange("", NoHeader, NoQuery, "", Unreachable, NoResp)
Protected == {"/loads", "/carrier/verify", "/call-log"}
LogVars == <<file, pc, req, resp, logs, wpos, pre, quiet>>

\* A request to a protected endpoint that the guard turns away: no handler runs.
Reject(e, h) ==
  /\ served < MaxRequests
  /\ served' = served + 1
  /\ \E g \in Guard(h) :
       /\ g # Pass
       /\ last' = Exchange(e, h, NoQuery, "", Unreachable, g)
  /\ UNCHANGED LogVars

\* GET /
ReadRoot(h) ==
  /\ served < MaxRequests
  /\ served' = served + 1
  /\ last' = Exchange("/", h, NoQuery, "", Unreachable,
                      Response(200, "Welcome to the Acme Logistics API"))
  /\ UNCHANGED LogVars

\* GET /loads
SearchLoads(h, q) ==
  /\ served < MaxRequests
  /\ served' = served + 1
  /\ Pass \in Guard(h)
  /\ last' = Exchange("/loads", h, q, "", Unreachable, search_loads(q))
  /\ UNCHANGED LogVars

\* POST /carrier/verify: one requests.get, whatever it meets
VerifyCarrier(h, mc, reg) ==
  /\ served < MaxRequests
  /\ served' = served + 1
  /\ Pass \in Guard(h)
  /\ last' = Exchange("/carrier/verify", h, NoQuery, mc, reg, verify_carrier(reg))
  /\ UNCHANGED LogVars

\* ------------------------------------------------------------------- states
\* What call_logs.json may hold when the service starts: no file, valid logs
\* of zero to two records, an empty file, a truncated array, a JSON document
\* that is no array, bytes that are no UTF-8.
InitialFiles ==
  {Absent, Present(<<>>), Present(<<Punct("null")>>), Present(<<Punct("xFF")>>),
   Present(<<Punct("[")>> \o ObjCells(model_dump(LogB)))}
  \cup {Present(json_dump(l)) :
          l \in {<<>>, <<model_dump(LogA)>>, <<model_dump(LogB)>>,
                 <<model_dump(LogB), model_dump(LogA)>>}}

Start(files) ==
  /\ file \in files
  /\ pc = [t \in Threads |-> "idle"]
  /\ req = [t \in Threads |-> NoReq]
  /\ resp = [t \in Threads |-> NoResp]
  /\ logs = [t \in Threads |-> <<>>]
  /\ wpos = [t \in Threads |-> 0]
  /\ pre = [t \in Threads |-> Absent]
  /\ quiet = [t \in Threads |-> TRUE]
  /\ served = 0
  /\ last = NoLast

\* The Call Log Recorder under concurrent authenticated requests.
InitLog == Start(InitialFiles)
NextLog ==
  \E t \in Threads :
    \/ \E h \in Headers, log \in CallLog : CreateCallLog(t, h, log)
    \/ Exists(t)
    \/ Load(t)
    \/ Open(t)
    \/ Dump(t)
SpecLog == InitLog /\ [][NextLog]_vars

\* The Load Catalog: every query of Queries.
InitSearch == Start({Absent})
NextSearch == \E h \in Headers, q \in Queries : SearchLoads(h, q)
SpecSearch == InitSearch /\ [][NextSearch]_vars

\* The Carrier Verifier: every outcome of Registry.
InitVerify == Start({Absent})
NextVerify ==
  \E h \in Headers, mc \in McNumbers, reg \in Registry : VerifyCarrier(h, mc, reg)
SpecVerify == InitVerify /\ [][NextVerify]_vars

\* The whole router: requests to the four endpoints, with any header, while
\* appends are in progress.  The guard and the frame of each handler do not
\* read the query, the registry's answer or the old records, so a few of each
\* stand for the rest here.
RouterFiles == {Absent, Present(json_dump(<<model_dump(LogA)>>))}
RouterQueries ==
  {NoQuery, Query(NotGiven, NotGiven, Given(Str_Van)),
   Query(Given(<<"z", "z">>), NotGiven, NotGiven)}
RouterRegistry ==
  {Unreachable, Answer(404, NoShape), Answer(200, Full("A")),
   Answer(200, Full("OUT-OF-SERVICE"))}
Init == Start(RouterFiles)
Next ==
  \/ NextLog
  \/ \E e \in Protected, h \in Headers : Reject(e, h)
  \/ \E h \in Headers : ReadRoot(h)
  \/ \E h \in Headers, q \in RouterQueries : SearchLoads(h, q)
  \/ \E h \in Headers, reg \in RouterRegistry : VerifyCarrier(h, "123456", reg)
Spec == Init /\ [][Next]_vars
\* ---------------------------------------------------------------- properties
ValidStore(f) == ~f.exists \/ json_load(f.data).kind = "list"
Records(f) == IF f.exists THEN json_load(f.data).val ELSE <<>>
Authorized(h) == h.present /\ h.scheme = "Bearer" /\ h.credentials = api_key
Completed(t) == pc[t] = "done" /\ resp[t].status = 201

\* C1: an append that completes with no step of another append in between, on
\* a store that was absent or held a valid sequence S, leaves the store
\* holding S followed by log: re-read, it is one longer, ends with log, and
\* holds the earlier records unchanged in their places.
C1_AppendExtends ==
  \A t \in Threads :
    (Completed(t) /\ quiet[t] /\ ValidStore(pre[t]))
    => LET S == Records(pre[t])
           now == json_load(file.data)
       IN /\ file.exists
          /\ now.kind = "list"
          /\ Len(now.val) = Len(S) + 1
          /\ now.val[Len(now.val)] = req[t].log
          /\ \A i \in 1..Len(S) : now.val[i] = S[i]
C1_Witness ==
  \E t \in Threads :
    /\ Completed(t) /\ quiet[t] /\ ValidStore(pre[t])
    /\ Len(Records(pre[t])) >= 1
    /\ served = 2

\* What the read step of an append finds in a store.
Observed(f) == IF f.exists THEN Existing(json_load(f.data)) ELSE <<>>

\* C2: while an undisturbed append writes, and after it failed part-way, the
\* store read by anyone is the complete sequence from before the write or the
\* complete sequence after it.
C2_AtomicRewrite ==
  \A t \in Threads :
    ( /\ pc[t] = "dump" \/ (pc[t] = "done" /\ resp[t].exc = "OSError")
      /\ quiet[t] /\ ValidStore(pre[t]) )
    => \/ Observed(file) = Records(pre[t])
       \/ Observed(file) = Append(Records(pre[t]), req[t].log)

\* C3: once two or more appends whose steps interleaved have all completed,
\* the store parses and holds the record of at least one of them.
C3_OneWriteSurvives ==
  LET done == {t \in Threads : Completed(t)} IN
    ( /\ \A t \in Threads : pc[t] = "idle" \/ t \in done
      /\ Cardinality(done) >= 2
      /\ \E t \in done : ~quiet[t] )
    => /\ file.exists
       /\ json_load(file.data).kind = "list"
       /\ \E t \in done :
            \E i \in 1..Len(json_load(file.data).val) :
              json_load(file.data).val[i] = req[t].log

\* C4: an undisturbed append on a store that is absent or does not parse as a
\* sequence answers 201 and leaves exactly [log], unless the medium could not
\* be written.
C4_CorruptStartsEmpty ==
  \A t \in Threads :
    (pc[t] = "done" /\ quiet[t] /\ (~pre[t].exists \/ ~ValidStore(pre[t])))
    => \/ /\ resp[t].status = 201
          /\ file = Present(json_dump(<<req[t].log>>))
       \/ /\ resp[t].status = 500
          /\ resp[t].exc = "OSError"

\* The filters as the interface states them: a given origin or destination is
\* a case-insensitive substring of the Load's, a given equipment type equals
\* the Load's up to case.
IsSubstring(x, y) ==
  \E a \in 0..Len(y) : \E b \in a..Len(y) : SubSeq(y, a + 1, b) = x
Satisfies(load, q) ==
  /\ q.origin.given => IsSubstring(lower(q.origin.s), lower(load.origin))
  /\ q.destination.given
       => IsSubstring(lower(q.destination.s), lower(load.destination))
  /\ q.equipment_type.given
       => lower(q.equipment_type.s) = lower(load.equipment_type)
Matching(q) == {i \in 1..Len(sampleLoads) : Satisfies(sampleLoads[i], q)}
\* The k-th smallest index of a set of indices.
Kth(idx, k) == CHOOSE i \in idx : Cardinality({j \in idx : j < i}) = k - 1
LoadIds(r) == [k \in 1..Len(r.loads) |-> r.loads[k].load_id]

\* C5: when some Load satisfies all the given filters, GET /loads answers
\* with exactly the satisfying Loads, each once, in catalog order;
\* equipment_type=Van gives LID-001 then LID-003.
C5_SearchExact ==
  (last.endpoint = "/loads" /\ Matching(last.query) # {})
  => LET idx == Matching(last.query) IN
       /\ last.resp.status = 200
       /\ Len(last.resp.loads) = Cardinality(idx)
       /\ \A k \in 1..Len(last.resp.loads) :
            last.resp.loads[k] = sampleLoads[Kth(idx, k)]
       /\ (last.query = Query(NotGiven, NotGiven, Given(Str_Van))
             => LoadIds(last.resp) = <<"LID-001", "LID-003">>)
C5_Witness ==
  /\ last.endpoint = "/loads"
  /\ last.query = Query(Given(<<"n", "e", "w", " ", "y", "o", "r", "k">>),
                        Given(<<"C", "A">>), Given(<<"V", "A", "N">>))
  /\ LoadIds(last.resp) = <<"LID-001">>

\* C6 as stated: GET /loads answers 200 with a non-empty list or 404 with
\* "No matching loads found", and 404 exactly when no Load satisfies all the
\* given filters.
C6_NotFoundIffNoMatch ==
  last.endpoint = "/loads"
  => /\ \/ last.resp.status = 200 /\ last.resp.loads # <<>>
        \/ /\ last.resp.status = 404
           /\ last.resp.detail = "No matching loads found"
           /\ last.resp.loads = <<>>
     /\ last.resp.status = 404 <=> Matching(last.query) = {}

\* C6 amended: a filter given as the empty string counts as absent.
NonEmpty(o) == IF o.given /\ o.s = <<>> THEN NotGiven ELSE o
Effective(q) ==
  Query(NonEmpty(q.origin), NonEmpty(q.destination), NonEmpty(q.equipment_type))
C6_NotFoundIffNoEffectiveMatch ==
  last.endpoint = "/loads"
  => /\ \/ last.resp.status = 200 /\ last.resp.loads # <<>>
        \/ /\ last.resp.status = 404
           /\ last.resp.detail = "No matching loads found"
           /\ last.resp.loads = <<>>
     /\ last.resp.status = 404 <=> Matching(Effective(last.query)) = {}
C6_Witness ==
  /\ last.endpoint = "/loads"
  /\ last.query = Query(Given(<<"D", "A", "L", "L", "A", "S">>), Given(<<>>),
                        Given(<<"v", "a", "n">>))
  /\ last.resp.status = 404
  /\ last.resp.detail = "No matching loads found"

\* C7: a request to a protected endpoint without the exact header
\* "Bearer <api key>" is answered 401; only a request with it reaches a
\* handler; GET / is answered whatever the header.
C7_Unauthorized401 ==
  /\ (last.endpoint \in Protected /\ ~Authorized(last.header))
       => last.resp.status = 401
  /\ (last.endpoint \in Protected /\ last.resp.status \notin {401, 403})
       => Authorized(last.header)
  /\ \A t \in Threads : pc[t] # "idle" => Authorized(req[t].header)
  /\ last.endpoint = "/" => last.resp.status = 200

\* The operational status of the first carrier record, when the body has one.
HasStatus(b) ==
  /\ b.json /\ b.top = "dict" /\ b.content = "list" /\ b.first = "dict"
  /\ b.carrier = "dict" /\ b.op = "dict" /\ b.status \notin {"missing", "null"}

\* C8: on every 2xx answer of the registry (here: one that carries a JSON
\* document) verify answers 200; not eligible exactly when the status is there
\* and is "OUT-OF-SERVICE", eligible in every other case, a missing or empty
\* record list included.
C8_StatusDecides ==
  ( /\ last.endpoint = "/carrier/verify"
    /\ last.registry.reachable
    /\ last.registry.status >= 200 /\ last.registry.status < 300
    /\ last.registry.body.json )
  => /\ last.resp.status = 200
     /\ IF HasStatus(last.registry.body)
           /\ last.registry.body.status = "OUT-OF-SERVICE"
          THEN /\ last.resp.eligible = "False"
               /\ last.resp.detail = "Carrier is not active or out of service"
          ELSE /\ last.resp.eligible = "True"
               /\ last.resp.detail = "Carrier is active and eligible"

\* C9: when the registry answers 404 verify answers 200, not eligible,
\* carrier not found; on any other error status and when the registry cannot
\* be reached it answers 503 with a fixed detail; no exception gets out and
\* the registry was called once.
C9_FailureMapping ==
  ( /\ last.endpoint = "/carrier/verify"
    /\ ~last.registry.reachable \/ last.registry.status >= 400 )
  => /\ last.resp.exc = None
     /\ last.resp.calls = 1
     /\ IF ~last.registry.reachable
          THEN /\ last.resp.status = 503
               /\ last.resp.detail = "Could not connect to the FMCSA API."
               /\ last.resp.eligible = None
        ELSE IF last.registry.status = 404
          THEN /\ last.resp.status = 200
               /\ last.resp.eligible = "False"
               /\ last.resp.detail = "Carrier not found."
          ELSE /\ last.resp.status = 503
               /\ last.resp.detail = "FMCSA API service is currently unavailable"
               /\ last.resp.eligible = None
C9_Witness ==
  /\ last.endpoint = "/carrier/verify"
  /\ last.registry.reachable /\ last.registry.status = 404
  /\ last.resp.status = 200 /\ last.resp.eligible = "False"

\* C10: the store changes only in a step of save_call_log serving a request
\* that carried the exact header; a rejected request and an exchange on GET /,
\* GET /loads or POST /carrier/verify leave the store and every request in
\* progress as they were, and a rejected request has called no registry.
C10_Frame ==
  [][ /\ file' # file
        => \E t \in Threads :
             /\ pc[t] \in {"open", "dump"}
             /\ pc'[t] # pc[t] \/ wpos'[t] # wpos[t]
             /\ Authorized(req[t].header)
      /\ last' # last => UNCHANGED LogVars
      /\ (last' # last /\ last'.endpoint \in Protected
            /\ ~Authorized(last'.header))
        => last'.resp.calls = 0 /\ last'.resp.status \in {401, 403}
    ]_vars
C10_Witness ==
  /\ last.endpoint = "/call-log" /\ ~Authorized(last.header)
  /\ \E t \in Threads : Completed(t) /\ file # pre[t] /\ quiet[t]
====
